---- MODULE Spec2Model ----
(***************************************************************************)
(* The HTTP CONNECT forward proxy of 5-03_http-proxy/src/main.rs.          *)
(*                                                                         *)
(* One hyper connection task per accepted connection serves HTTP/1.1       *)
(* requests through tower_service; a CONNECT request with an authority     *)
(* spawns a task that waits for the upgrade, connects to the target and    *)
(* runs tokio::io::copy_bidirectional between the two sockets.             *)
(*                                                                         *)
(* Bytes are numbered globally in the order the peers send them, so every  *)
(* byte in flight is distinct and a loss, duplication, reordering or a     *)
(* leak between sessions is visible in the sequences.                      *)
(***************************************************************************)
EXTENDS Naturals, Sequences, FiniteSets

\* Bounds of the model.
NumConns == 2      \* connections the listener hands out
MaxEvents == 4     \* events the peers cause in total: requests, bytes, closes, resets

Conns == 1..NumConns
Dirs  == {"c2s", "s2c"}    \* client->upstream, upstream->client

Other(d) == IF d = "c2s" THEN "s2c" ELSE "c2s"

VARIABLES
  conn,        \* conn[c]: state of the serve_connection task of connection c
  inbound,     \* inbound[c]: the client socket: "none" | "open" | "closed"
  upstream,    \* upstream[c]: the TcpStream to the target: "none" | "open" | "closed"
  pending,     \* pending[c]: the response the service returned, not yet written
  calls,       \* calls[c]: history of the service calls made for connection c
  clientRecv,  \* clientRecv[c]: responses the client has received
  task,        \* task[c]: state of the task spawned by proxy()
  exit,        \* exit[c]: how the spawned task ended, and what it logged
  addr,        \* addr[c]: host_addr captured by the spawned task
  connects,    \* connects[c]: calls of TcpStream::connect made for c
  inq,         \* inq[c][d]: bytes sent by the source of d, not yet read by the relay
  srcEof,      \* srcEof[c][d]: the source of d has closed its sending side
  buf,         \* buf[c][d]: bytes the copy buffer of d holds (read, not yet written)
  readDone,    \* readDone[c][d]: CopyBuffer.read_done, the relay has read EOF on d
  dstate,      \* dstate[c][d]: TransferState of d: "running" | "done"
  amt,         \* amt[c][d]: bytes written so far in direction d
  out,         \* out[c][d]: bytes written to the destination of d
  outEof,      \* outEof[c][d]: the write half toward the destination was shut down
  sent,        \* sent[c][d]: history of all bytes the source of d has sent
  nreqs,       \* requests sent so far
  nbytes,      \* payload bytes sent so far
  ncloses,     \* closes and resets the peers have caused so far
  listener,    \* the accept loop of main: "listening" | "panicked"
  nclosed,     \* nclosed[c]: how often the inbound and the upstream socket were closed
  logged       \* logged[c]: the byte counts tunnel logged, <<>> while it logged none

\* The chat server of 6-01_chat/src/main.rs.
VARIABLES
  user_set,    \* AppState.user_set
  cstream,     \* cstream[s]: the websocket of s: "none" | "open" | "ended"
  cpc,         \* cpc[s]: where the websocket task of session s stands
  cname,       \* cname[s]: the local `username` of session s
  csub,        \* csub[s]: the name session s last submitted
  ctask,       \* ctask[s]: state of send_task and recv_task of session s
  cout,        \* cout[s]: text messages the server sent to the client of s
  rxq,         \* rxq[s]: broadcast messages queued in the receiver `rx` of s
  bcast,       \* every message sent on AppState.tx, in order
  nchat        \* messages and closes the chat clients have caused so far

\* The reverse proxy of 5-04_reverse-proxy/src/main.rs.
VARIABLES
  rpReq,       \* the request the reverse proxy is handling, or NoRpReq
  rpStage,     \* "idle" | "routed" | "forwarded" | "answered"
  rpLog        \* the requests handled so far, with what was done with them

\* The echoing websocket handler of 6-05_testing-websockets/src/main.rs.
VARIABLES
  ein,         \* items the client has put on the stream, not yet received
  eend,        \* the client has ended the stream
  ehist,       \* items the handler has received, in order
  eout,        \* messages the handler has sent, in order
  epc,         \* the handler: "receiving" | "sending" | "stopped"
  estop        \* why the handler stopped: "none" | "end" | "recv error" | "send error"

\* The todos service of 3-09_todos/src/main.rs, for one todo id.
VARIABLES
  tdb,         \* the entry of the id in Db
  tmade,       \* POST /todos has created the todo
  tpc,         \* tpc[r]: where the handler of request r stands
  top,         \* top[r]: the request r
  tlocal,      \* tlocal[r]: the local `todo` of todos_update
  tresp        \* tresp[r]: the status answered to r, 0 while there is none

httpVars  == <<conn, inbound, pending, calls, clientRecv>>
envVars   == <<nreqs, nbytes, ncloses>>

\* Another event of a peer fits the bound.
MoreEvents == nreqs + nbytes + ncloses < MaxEvents
taskVars  == <<task, exit, addr, connects, upstream>>
mainVars  == <<listener, nclosed, logged>>
relayVars == <<inq, srcEof, buf, readDone, dstate, amt, out, outEof, sent>>
proxyVars == <<httpVars, taskVars, relayVars, envVars, mainVars>>
chatVars  == <<user_set, cstream, cpc, cname, csub, ctask, cout, rxq, bcast, nchat>>
rpVars    == <<rpReq, rpStage, rpLog>>
echoVars  == <<ein, eend, ehist, eout, epc, estop>>
\* The variables of the examples modelled last.
todoVars  == <<tdb, tmade, tpc, top, tlocal, tresp>>
restVars  == <<echoVars, todoVars>>
\* The variables of the other examples, which the forward proxy leaves alone.
otherVars == <<chatVars, rpVars, restVars>>
vars == <<httpVars, taskVars, relayVars, envVars, mainVars, otherVars>>

----------------------------------------------------------------------------
\* Requests and responses.

Methods == {"GET", "POST", "CONNECT"}

\* Request targets: authority with port, authority without port, origin form.
Targets == {"host:port", "host", "/"}

\* Requests a client sends: CONNECT with any target form, other methods with
\* an origin-form target.
Requests ==
  {r \in [method : Methods, target : Targets] :
     r.method # "CONNECT" => r.target = "/"}

NoResp == [status |-> 0, body |-> "", by |-> "none"]

\* http::Uri::authority() of the request target: a target that does not start
\* with "/" and has no scheme is parsed as an authority, with or without port.
Authority(target) ==
  IF target \in {"host:port", "host"} THEN target ELSE "None"

\* Router::new().route("/", get(...)): GET / is served, another method on /
\* is 405, every other path is 404.
RouterResponse(r) ==
  IF r.target = "/"
    THEN IF r.method = "GET"
           THEN [status |-> 200, body |-> "Hello, World!", by |-> "router"]
           ELSE [status |-> 405, body |-> "", by |-> "router"]
    ELSE [status |-> 404, body |-> "", by |-> "router"]

\* Mutant of IsConnect: every method but GET is taken for CONNECT.
IsConnectNotGet(r) == r.method # "GET"

\* req.method() == Method::CONNECT
IsConnect(r) == r.method = "CONNECT"

\* Mutant of ProxySpawns: the authority is not looked at.
ProxySpawnsAlways(r) == TRUE

\* proxy(): the branch of `if let Some(host_addr) = req.uri().authority()`.
ProxySpawns(r) == Authority(r.target) # "None"

ProxyResponse(r) ==
  IF ProxySpawns(r)
    THEN [status |-> 200, body |-> "", by |-> "proxy"]
    ELSE [status |-> 400, body |-> "CONNECT must be to a socket address",
          by |-> "proxy"]

\* hyper ends HTTP framing after a 2xx response to a CONNECT request.
IsUpgradeResponse(r, resp) ==
  r.method = "CONNECT" /\ resp.status >= 200 /\ resp.status < 300

\* ToSocketAddrs for a string: without a port the address is invalid, and
\* TcpStream::connect fails before any socket is opened.
Connectable(a) == a = "host:port"

----------------------------------------------------------------------------
\* Initial state of the chat server: an empty user_set, no session connected.
NumSessions == 2   \* websocket sessions of the chat server
MaxChat     == 3   \* messages and closes the chat clients cause in total

Sessions == 1..NumSessions

NoTasks == [send |-> "none", recv |-> "none"]

ChatInit ==
  /\ user_set = {}
  /\ cstream = [s \in Sessions |-> "none"]
  /\ cpc   = [s \in Sessions |-> "idle"]
  /\ cname = [s \in Sessions |-> ""]
  /\ csub  = [s \in Sessions |-> ""]
  /\ ctask = [s \in Sessions |-> NoTasks]
  /\ cout  = [s \in Sessions |-> <<>>]
  /\ rxq   = [s \in Sessions |-> <<>>]
  /\ bcast = <<>>
  /\ nchat = 0

\* Initial state of the reverse proxy: no request yet.
MaxRpReqs == 3     \* requests the reverse proxy receives

NoRpReq == [method |-> "", path |-> ""]

RpInit ==
  /\ rpReq = NoRpReq
  /\ rpStage = "idle"
  /\ rpLog = <<>>

\* Initial state of the echo handler: the websocket was just upgraded.
MaxEcho == 3       \* items the client of the echo handler puts on the stream

EchoInit ==
  /\ ein = <<>>
  /\ eend = FALSE
  /\ ehist = <<>>
  /\ eout = <<>>
  /\ epc = "receiving"
  /\ estop = "none"

\* Initial state of the todos service: an empty Db, no request yet.
NumTodoReqs == 3   \* concurrent PATCH and DELETE requests on the id

TodoReqs == 1..NumTodoReqs

NoTodo == [present |-> FALSE, text |-> "", completed |-> FALSE]
NoOp   == [kind |-> "none", setText |-> FALSE, setCompleted |-> FALSE]

TodoInit ==
  /\ tdb = NoTodo
  /\ tmade = FALSE
  /\ tpc = [r \in TodoReqs |-> "idle"]
  /\ top = [r \in TodoReqs |-> NoOp]
  /\ tlocal = [r \in TodoReqs |-> NoTodo]
  /\ tresp = [r \in TodoReqs |-> 0]

----------------------------------------------------------------------------
EmptyDirs(x) == [d \in Dirs |-> x]

Init ==
  /\ conn       = [c \in Conns |-> "none"]
  /\ inbound    = [c \in Conns |-> "none"]
  /\ upstream   = [c \in Conns |-> "none"]
  /\ pending    = [c \in Conns |-> NoResp]
  /\ calls      = [c \in Conns |-> <<>>]
  /\ clientRecv = [c \in Conns |-> <<>>]
  /\ task       = [c \in Conns |-> "none"]
  /\ exit       = [c \in Conns |-> "none"]
  /\ addr       = [c \in Conns |-> "None"]
  /\ connects   = [c \in Conns |-> 0]
  /\ inq        = [c \in Conns |-> EmptyDirs(<<>>)]
  /\ srcEof     = [c \in Conns |-> EmptyDirs(FALSE)]
  /\ buf        = [c \in Conns |-> EmptyDirs(<<>>)]
  /\ readDone   = [c \in Conns |-> EmptyDirs(FALSE)]
  /\ dstate     = [c \in Conns |-> EmptyDirs("running")]
  /\ amt        = [c \in Conns |-> EmptyDirs(0)]
  /\ out        = [c \in Conns |-> EmptyDirs(<<>>)]
  /\ outEof     = [c \in Conns |-> EmptyDirs(FALSE)]
  /\ sent       = [c \in Conns |-> EmptyDirs(<<>>)]
  /\ nreqs      = 0
  /\ nbytes     = 0
  /\ ncloses    = 0
  /\ listener   = "listening"
  /\ nclosed    = [c \in Conns |-> [inb |-> 0, ups |-> 0]]
  /\ logged     = [c \in Conns |-> <<>>]
  /\ ChatInit
  /\ RpInit
  /\ EchoInit
  /\ TodoInit

----------------------------------------------------------------------------
\* Mutant of Accept: the loop serves a connection and its tunnel inline, and
\* accepts the next one only when they are over.
AcceptSerial(c) ==
  /\ listener = "listening"
  /\ conn[c] = "none"
  /\ \A b \in Conns : b < c =>
       conn[b] \in {"closed", "upgraded"} /\ task[b] \in {"none", "exited"}
  /\ conn' = [conn EXCEPT ![c] = "reading"]
  /\ inbound' = [inbound EXCEPT ![c] = "open"]
  /\ UNCHANGED <<pending, calls, clientRecv, taskVars, relayVars, envVars>>
  /\ UNCHANGED <<listener, nclosed, logged, otherVars>>

\* The acceptor loop: listener.accept() hands out the next connection and a
\* task is spawned that serves it.
Accept(c) ==
  /\ listener = "listening"
  /\ conn[c] = "none"
  /\ \A b \in Conns : b < c => conn[b] # "none"
  /\ conn' = [conn EXCEPT ![c] = "reading"]
  /\ inbound' = [inbound EXCEPT ![c] = "open"]
  /\ UNCHANGED <<pending, calls, clientRecv, taskVars, relayVars, envVars>>
  /\ UNCHANGED <<listener, nclosed, logged, otherVars>>

\* listener.accept().await.unwrap() when accept() returns an error: main
\* panics, the runtime is dropped with every task it runs, and the process ends
\* with all its sockets closed.
AcceptFail ==
  /\ listener = "listening"
  /\ listener' = "panicked"
  /\ conn' = [c \in Conns |->
       IF conn[c] \in {"reading", "responding"} THEN "closed" ELSE conn[c]]
  /\ pending' = [c \in Conns |-> NoResp]
  /\ inbound' = [c \in Conns |->
       IF inbound[c] = "open" THEN "closed" ELSE inbound[c]]
  /\ upstream' = [c \in Conns |->
       IF upstream[c] = "open" THEN "closed" ELSE upstream[c]]
  /\ nclosed' = [c \in Conns |->
       [inb |-> nclosed[c].inb + (IF inbound[c] = "open" THEN 1 ELSE 0),
        ups |-> nclosed[c].ups + (IF upstream[c] = "open" THEN 1 ELSE 0)]]
  /\ task' = [c \in Conns |->
       IF task[c] \in {"none", "exited"} THEN task[c] ELSE "exited"]
  /\ exit' = [c \in Conns |->
       IF task[c] \in {"none", "exited"} THEN exit[c] ELSE "aborted"]
  /\ UNCHANGED <<calls, clientRecv, addr, connects, relayVars, envVars>>
  /\ UNCHANGED <<logged, otherVars>>

\* Mutant of Dispatch: a request is parsed on an upgraded connection as well.
DispatchUpgraded(c, r) ==
  /\ conn[c] \in {"reading", "upgraded"}
  /\ inbound[c] = "open"
  /\ MoreEvents
  /\ nreqs' = nreqs + 1
  /\ conn' = [conn EXCEPT ![c] = "responding"]
  /\ IF IsConnect(r)
       THEN /\ pending' = [pending EXCEPT ![c] = ProxyResponse(r)]
            /\ calls' = [calls EXCEPT ![c] = Append(@,
                 [req |-> r, handler |-> "proxy", resp |-> ProxyResponse(r),
                  spawned |-> ProxySpawns(r)])]
            /\ IF ProxySpawns(r)
                 THEN /\ task' = [task EXCEPT ![c] = "awaitUpgrade"]
                      /\ addr' = [addr EXCEPT ![c] = Authority(r.target)]
                 ELSE UNCHANGED <<task, addr>>
       ELSE /\ pending' = [pending EXCEPT ![c] = RouterResponse(r)]
            /\ calls' = [calls EXCEPT ![c] = Append(@,
                 [req |-> r, handler |-> "router", resp |-> RouterResponse(r),
                  spawned |-> FALSE])]
            /\ UNCHANGED <<task, addr>>
  /\ UNCHANGED <<inbound, clientRecv, exit, connects, upstream, relayVars,
                 nbytes, ncloses>>
  /\ UNCHANGED <<listener, nclosed, logged, otherVars>>

\* tower_service: one request is parsed and dispatched. A CONNECT request goes
\* to proxy(), which spawns the upgrade-waiting task when the URI has an
\* authority; every other request goes to the router.
Dispatch(c, r) ==
  /\ conn[c] = "reading"
  /\ inbound[c] = "open"
  /\ MoreEvents
  /\ nreqs' = nreqs + 1
  /\ conn' = [conn EXCEPT ![c] = "responding"]
  /\ IF IsConnect(r)
       THEN /\ pending' = [pending EXCEPT ![c] = ProxyResponse(r)]
            /\ calls' = [calls EXCEPT ![c] = Append(@,
                 [req |-> r, handler |-> "proxy", resp |-> ProxyResponse(r),
                  spawned |-> ProxySpawns(r)])]
            /\ IF ProxySpawns(r)
                 THEN /\ task' = [task EXCEPT ![c] = "awaitUpgrade"]
                      /\ addr' = [addr EXCEPT ![c] = Authority(r.target)]
                 ELSE UNCHANGED <<task, addr>>
       ELSE /\ pending' = [pending EXCEPT ![c] = RouterResponse(r)]
            /\ calls' = [calls EXCEPT ![c] = Append(@,
                 [req |-> r, handler |-> "router", resp |-> RouterResponse(r),
                  spawned |-> FALSE])]
            /\ UNCHANGED <<task, addr>>
  /\ UNCHANGED <<inbound, clientRecv, exit, connects, upstream, relayVars,
                 nbytes, ncloses>>
  /\ UNCHANGED <<listener, nclosed, logged, otherVars>>

LastCall(c) == calls[c][Len(calls[c])]

\* serve_connection writes the response. After a 2xx answer to CONNECT the
\* connection is upgraded: the I/O handle moves to the Upgraded object and the
\* connection task is over; otherwise the connection is kept alive.
WriteResponse(c) ==
  /\ conn[c] = "responding"
  /\ inbound[c] = "open"
  /\ clientRecv' = [clientRecv EXCEPT ![c] = Append(@, pending[c])]
  /\ pending' = [pending EXCEPT ![c] = NoResp]
  /\ conn' = [conn EXCEPT ![c] =
       IF IsUpgradeResponse(LastCall(c).req, pending[c])
         THEN "upgraded" ELSE "reading"]
  /\ UNCHANGED <<inbound, calls, taskVars, relayVars, envVars>>
  /\ UNCHANGED <<listener, nclosed, logged, otherVars>>

\* Mutant of ConnEnd: the failure of one connection ends every connection that
\* is in HTTP mode.
ConnEndAll(c) ==
  /\ conn[c] \in {"reading", "responding"}
  /\ MoreEvents
  /\ ncloses' = ncloses + 1
  /\ conn' = [b \in Conns |->
       IF conn[b] \in {"reading", "responding"} THEN "closed" ELSE conn[b]]
  /\ inbound' = [b \in Conns |->
       IF conn[b] \in {"reading", "responding"} THEN "closed" ELSE inbound[b]]
  /\ pending' = [b \in Conns |->
       IF conn[b] \in {"reading", "responding"} THEN NoResp ELSE pending[b]]
  /\ UNCHANGED <<calls, clientRecv, nreqs, nbytes, taskVars, relayVars>>
  /\ nclosed' = [b \in Conns |->
       IF conn[b] \in {"reading", "responding"}
         THEN [nclosed[b] EXCEPT !.inb = @ + 1] ELSE nclosed[b]]
  /\ UNCHANGED <<listener, logged, otherVars>>

\* The client goes away while the connection is in HTTP mode (EOF between
\* requests, or a failed read/write): serve_connection returns and drops the
\* socket.
ConnEnd(c) ==
  /\ conn[c] \in {"reading", "responding"}
  /\ MoreEvents
  /\ ncloses' = ncloses + 1
  /\ conn' = [conn EXCEPT ![c] = "closed"]
  /\ inbound' = [inbound EXCEPT ![c] = "closed"]
  /\ pending' = [pending EXCEPT ![c] = NoResp]
  /\ UNCHANGED <<calls, clientRecv, nreqs, nbytes, taskVars, relayVars>>
  /\ nclosed' = [nclosed EXCEPT ![c].inb = @ + 1]
  /\ UNCHANGED <<listener, logged, otherVars>>

----------------------------------------------------------------------------
\* The task spawned by proxy().

\* Mutant of UpgradeComplete: the task does not wait for the response to be
\* written.
UpgradeCompleteEarly(c) == conn[c] \in {"responding", "upgraded"}

\* hyper::upgrade::on(req) resolves with Ok(upgraded) once the connection has
\* written the 200 response and handed over its I/O handle.
UpgradeComplete(c) == conn[c] = "upgraded"

\* hyper::upgrade::on(req) resolves with an error when the connection ended
\* without upgrading.
UpgradeFailed(c) == conn[c] = "closed"

\* Mutant of TunnelStart: a failed connect is attempted again.
TunnelStartRetry(c) ==
  /\ \/ task[c] = "awaitUpgrade"
     \/ task[c] = "exited" /\ exit[c] = "connect error" /\ connects[c] < 2
  /\ UpgradeComplete(c)
  /\ task' = [task EXCEPT ![c] = "connecting"]
  /\ connects' = [connects EXCEPT ![c] = @ + 1]
  /\ UNCHANGED <<exit, addr, upstream, httpVars, relayVars, envVars>>
  /\ UNCHANGED <<listener, nclosed, logged, otherVars>>

\* Ok(upgraded) => tunnel(upgraded, host_addr): TcpStream::connect is called.
TunnelStart(c) ==
  /\ task[c] = "awaitUpgrade"
  /\ UpgradeComplete(c)
  /\ task' = [task EXCEPT ![c] = "connecting"]
  /\ connects' = [connects EXCEPT ![c] = @ + 1]
  /\ UNCHANGED <<exit, addr, upstream, httpVars, relayVars, envVars>>
  /\ UNCHANGED <<listener, nclosed, logged, otherVars>>

\* Mutant of UpgradeError: the task goes on to connect although the upgrade
\* failed.
UpgradeErrorConnects(c) ==
  /\ task[c] = "awaitUpgrade"
  /\ UpgradeFailed(c)
  /\ task' = [task EXCEPT ![c] = "connecting"]
  /\ connects' = [connects EXCEPT ![c] = @ + 1]
  /\ UNCHANGED <<exit, addr, upstream, httpVars, relayVars, envVars>>
  /\ UNCHANGED <<listener, nclosed, logged, otherVars>>

\* Mutant of UpgradeError: the task closes the client socket once more.
UpgradeErrorCloses(c) ==
  /\ task[c] = "awaitUpgrade"
  /\ UpgradeFailed(c)
  /\ task' = [task EXCEPT ![c] = "exited"]
  /\ exit' = [exit EXCEPT ![c] = "upgrade error"]
  /\ UNCHANGED <<addr, connects, upstream, httpVars, relayVars, envVars>>
  /\ nclosed' = [nclosed EXCEPT ![c].inb = @ + 1]
  /\ UNCHANGED <<listener, logged, otherVars>>

\* Err(e) => tracing::warn!("upgrade error: {}", e); the task ends.
UpgradeError(c) ==
  /\ task[c] = "awaitUpgrade"
  /\ UpgradeFailed(c)
  /\ task' = [task EXCEPT ![c] = "exited"]
  /\ exit' = [exit EXCEPT ![c] = "upgrade error"]
  /\ UNCHANGED <<addr, connects, upstream, httpVars, relayVars, envVars>>
  /\ UNCHANGED <<listener, nclosed, logged, otherVars>>

\* TcpStream::connect(addr).await succeeded: copy_bidirectional starts.
ConnectOk(c) ==
  /\ task[c] = "connecting"
  /\ Connectable(addr[c])
  /\ upstream' = [upstream EXCEPT ![c] = "open"]
  /\ task' = [task EXCEPT ![c] = "relaying"]
  /\ UNCHANGED <<exit, addr, connects, httpVars, relayVars, envVars>>
  /\ UNCHANGED <<listener, nclosed, logged, otherVars>>

\* Mutant of ConnectFail: the client socket is not dropped.
ConnectFailLeak(c) ==
  /\ task[c] = "connecting"
  /\ task' = [task EXCEPT ![c] = "exited"]
  /\ exit' = [exit EXCEPT ![c] = "connect error"]
  /\ UNCHANGED <<addr, connects, upstream, relayVars, httpVars, envVars>>
  /\ UNCHANGED <<listener, nclosed, logged, otherVars>>

\* TcpStream::connect(addr).await? failed: tunnel returns the error, which
\* drops `upgraded` (the client socket); the spawner logs "server io error".
ConnectFail(c) ==
  /\ task[c] = "connecting"
  /\ task' = [task EXCEPT ![c] = "exited"]
  /\ exit' = [exit EXCEPT ![c] = "connect error"]
  /\ inbound' = [inbound EXCEPT ![c] = "closed"]
  /\ UNCHANGED <<addr, connects, upstream, relayVars,
                 conn, pending, calls, clientRecv, envVars>>
  /\ nclosed' = [nclosed EXCEPT ![c].inb = @ + 1]
  /\ UNCHANGED <<listener, logged, otherVars>>

----------------------------------------------------------------------------
\* tokio::io::copy_bidirectional(&mut upgraded, &mut server): two CopyBuffer
\* state machines polled by the one tunnel task.

Relaying(c) == task[c] = "relaying"

Take(s, k) == SubSeq(s, 1, k)
Drop(s, k) == SubSeq(s, k + 1, Len(s))

\* Mutant of RelayRead: the two directions are copied one after the other, the
\* upstream->client direction only when client->upstream is Done.
RelayReadSequential(c, d, k) ==
  /\ Relaying(c)
  /\ dstate[c][d] = "running"
  /\ d = "s2c" => dstate[c]["c2s"] = "done"
  /\ ~readDone[c][d]
  /\ k >= 1 /\ k <= Len(inq[c][d])
  /\ buf' = [buf EXCEPT ![c][d] = @ \o Take(inq[c][d], k)]
  /\ inq' = [inq EXCEPT ![c][d] = Drop(@, k)]
  /\ UNCHANGED <<srcEof, readDone, dstate, amt, out, outEof, sent, envVars,
                 httpVars, taskVars>>
  /\ UNCHANGED <<listener, nclosed, logged, otherVars>>

\* poll_fill_buf: read k available bytes behind the bytes still buffered (the
\* buffer is filled when it is drained, and also while a write is pending).
RelayRead(c, d, k) ==
  /\ Relaying(c)
  /\ dstate[c][d] = "running"
  /\ ~readDone[c][d]
  /\ k >= 1 /\ k <= Len(inq[c][d])
  /\ buf' = [buf EXCEPT ![c][d] = @ \o Take(inq[c][d], k)]
  /\ inq' = [inq EXCEPT ![c][d] = Drop(@, k)]
  /\ UNCHANGED <<srcEof, readDone, dstate, amt, out, outEof, sent, envVars,
                 httpVars, taskVars>>
  /\ UNCHANGED <<listener, nclosed, logged, otherVars>>

\* Mutant of RelayReadEof: the end-of-stream of the upstream side is not taken
\* for the end of the copy, the relay keeps waiting for bytes.
RelayReadEofIgnored(c, d) ==
  /\ Relaying(c)
  /\ dstate[c][d] = "running"
  /\ ~readDone[c][d]
  /\ inq[c][d] = <<>>
  /\ srcEof[c][d]
  /\ d = "c2s"
  /\ readDone' = [readDone EXCEPT ![c][d] = TRUE]
  /\ UNCHANGED <<inq, srcEof, buf, dstate, amt, out, outEof, sent, envVars,
                 httpVars, taskVars>>
  /\ UNCHANGED <<listener, nclosed, logged, otherVars>>

\* poll_fill_buf returns 0 bytes: the source is at end-of-stream.
RelayReadEof(c, d) ==
  /\ Relaying(c)
  /\ dstate[c][d] = "running"
  /\ ~readDone[c][d]
  /\ inq[c][d] = <<>>
  /\ srcEof[c][d]
  /\ readDone' = [readDone EXCEPT ![c][d] = TRUE]
  /\ UNCHANGED <<inq, srcEof, buf, dstate, amt, out, outEof, sent, envVars,
                 httpVars, taskVars>>
  /\ UNCHANGED <<listener, nclosed, logged, otherVars>>

\* Mutant of RelayWrite: the read position is not advanced after the write.
RelayWriteNoAdvance(c, d, k) ==
  /\ Relaying(c)
  /\ dstate[c][d] = "running"
  /\ k >= 1 /\ k <= Len(buf[c][d])
  /\ out' = [out EXCEPT ![c][d] = @ \o Take(buf[c][d], k)]
  /\ amt' = [amt EXCEPT ![c][d] = @ + k]
  /\ UNCHANGED <<inq, srcEof, buf, readDone, dstate, outEof, sent, envVars,
                 httpVars, taskVars>>
  /\ UNCHANGED <<listener, nclosed, logged, otherVars>>

\* Mutant of RelayWrite: the bytes are written to the peer of another session.
RelayWriteCrossed(c, d, k) ==
  /\ Relaying(c)
  /\ dstate[c][d] = "running"
  /\ k >= 1 /\ k <= Len(buf[c][d])
  /\ out' = [out EXCEPT ![CHOOSE b \in Conns : b # c][d] = @ \o Take(buf[c][d], k)]
  /\ buf' = [buf EXCEPT ![c][d] = Drop(@, k)]
  /\ amt' = [amt EXCEPT ![c][d] = @ + k]
  /\ UNCHANGED <<inq, srcEof, readDone, dstate, outEof, sent, envVars,
                 httpVars, taskVars>>
  /\ UNCHANGED <<listener, nclosed, logged, otherVars>>

\* poll_write_buf: the writer takes the first k buffered bytes.
RelayWrite(c, d, k) ==
  /\ Relaying(c)
  /\ dstate[c][d] = "running"
  /\ k >= 1 /\ k <= Len(buf[c][d])
  /\ out' = [out EXCEPT ![c][d] = @ \o Take(buf[c][d], k)]
  /\ buf' = [buf EXCEPT ![c][d] = Drop(@, k)]
  /\ amt' = [amt EXCEPT ![c][d] = @ + k]
  /\ UNCHANGED <<inq, srcEof, readDone, dstate, outEof, sent, envVars,
                 httpVars, taskVars>>
  /\ UNCHANGED <<listener, nclosed, logged, otherVars>>

\* Mutant of RelayShutdown: the write half is shut down as soon as EOF was
\* read, without writing out the buffer.
RelayShutdownEarly(c, d) ==
  /\ Relaying(c)
  /\ dstate[c][d] = "running"
  /\ readDone[c][d]
  /\ dstate' = [dstate EXCEPT ![c][d] = "done"]
  /\ outEof' = [outEof EXCEPT ![c][d] = TRUE]
  /\ UNCHANGED <<inq, srcEof, buf, readDone, amt, out, sent, envVars,
                 httpVars, taskVars>>
  /\ UNCHANGED <<listener, nclosed, logged, otherVars>>

\* The copy of d is complete (EOF read, buffer written): the write half toward
\* the destination is shut down and the direction is Done.
RelayShutdown(c, d) ==
  /\ Relaying(c)
  /\ dstate[c][d] = "running"
  /\ readDone[c][d]
  /\ buf[c][d] = <<>>
  /\ dstate' = [dstate EXCEPT ![c][d] = "done"]
  /\ outEof' = [outEof EXCEPT ![c][d] = TRUE]
  /\ UNCHANGED <<inq, srcEof, buf, readDone, amt, out, sent, envVars,
                 httpVars, taskVars>>
  /\ UNCHANGED <<listener, nclosed, logged, otherVars>>

\* Mutant of CopyComplete: the copy ends when either direction is Done.
CopyCompleteEither(c) == \E d \in Dirs : dstate[c][d] = "done"

\* copy_bidirectional is ready when both directions are Done.
CopyComplete(c) == \A d \in Dirs : dstate[c][d] = "done"

\* Mutant of TunnelOk: the two counts are logged the wrong way round.
TunnelOkSwapped(c) ==
  /\ Relaying(c)
  /\ CopyComplete(c)
  /\ task' = [task EXCEPT ![c] = "exited"]
  /\ exit' = [exit EXCEPT ![c] = "ok"]
  /\ inbound' = [inbound EXCEPT ![c] = "closed"]
  /\ upstream' = [upstream EXCEPT ![c] = "closed"]
  /\ UNCHANGED <<addr, connects, relayVars,
                 conn, pending, calls, clientRecv, envVars>>
  /\ nclosed' = [nclosed EXCEPT ![c].inb = @ + 1, ![c].ups = @ + 1]
  /\ logged' = [logged EXCEPT ![c] = <<amt[c]["s2c"], amt[c]["c2s"]>>]
  /\ UNCHANGED <<listener, otherVars>>

\* copy_bidirectional returned Ok((from_client, from_server)): tunnel logs the
\* counts and returns Ok(()), dropping `upgraded` and `server`.
TunnelOk(c) ==
  /\ Relaying(c)
  /\ CopyComplete(c)
  /\ task' = [task EXCEPT ![c] = "exited"]
  /\ exit' = [exit EXCEPT ![c] = "ok"]
  /\ inbound' = [inbound EXCEPT ![c] = "closed"]
  /\ upstream' = [upstream EXCEPT ![c] = "closed"]
  /\ UNCHANGED <<addr, connects, relayVars,
                 conn, pending, calls, clientRecv, envVars>>
  /\ nclosed' = [nclosed EXCEPT ![c].inb = @ + 1, ![c].ups = @ + 1]
  /\ logged' = [logged EXCEPT ![c] = <<amt[c]["c2s"], amt[c]["s2c"]>>]
  /\ UNCHANGED <<listener, otherVars>>

\* Mutant of RelayIoError: the upstream socket is not dropped.
RelayIoErrorLeak(c) ==
  /\ Relaying(c)
  /\ MoreEvents
  /\ ncloses' = ncloses + 1
  /\ task' = [task EXCEPT ![c] = "exited"]
  /\ exit' = [exit EXCEPT ![c] = "relay error"]
  /\ inbound' = [inbound EXCEPT ![c] = "closed"]
  /\ UNCHANGED <<addr, connects, upstream, relayVars,
                 conn, pending, calls, clientRecv, nreqs, nbytes>>
  /\ nclosed' = [nclosed EXCEPT ![c].inb = @ + 1]
  /\ UNCHANGED <<listener, logged, otherVars>>

\* A peer resets its connection and a read, write, flush or shutdown on either
\* socket fails: copy_bidirectional
\* returns the error at once, `?` returns it from tunnel (dropping both
\* sockets) and the spawner logs "server io error".
RelayIoError(c) ==
  /\ Relaying(c)
  /\ MoreEvents
  /\ ncloses' = ncloses + 1
  /\ task' = [task EXCEPT ![c] = "exited"]
  /\ exit' = [exit EXCEPT ![c] = "relay error"]
  /\ inbound' = [inbound EXCEPT ![c] = "closed"]
  /\ upstream' = [upstream EXCEPT ![c] = "closed"]
  /\ UNCHANGED <<addr, connects, relayVars,
                 conn, pending, calls, clientRecv, nreqs, nbytes>>
  /\ nclosed' = [nclosed EXCEPT ![c].inb = @ + 1, ![c].ups = @ + 1]
  /\ UNCHANGED <<listener, logged, otherVars>>

----------------------------------------------------------------------------
\* The peers of a tunnel.

\* The endpoint that sends in direction d.
SourceOpen(c, d) ==
  IF d = "c2s"
    THEN conn[c] = "upgraded" /\ inbound[c] = "open"
    ELSE upstream[c] = "open"

\* The client (d = "c2s") or the target (d = "s2c") sends one more byte.
PeerSend(c, d) ==
  /\ SourceOpen(c, d)
  /\ ~srcEof[c][d]
  /\ MoreEvents
  /\ nbytes' = nbytes + 1
  /\ inq' = [inq EXCEPT ![c][d] = Append(@, nbytes + 1)]
  /\ sent' = [sent EXCEPT ![c][d] = Append(@, nbytes + 1)]
  /\ UNCHANGED <<srcEof, buf, readDone, dstate, amt, out, outEof,
                 nreqs, ncloses, httpVars, taskVars>>
  /\ UNCHANGED <<listener, nclosed, logged, otherVars>>

\* The client or the target closes its sending side.
PeerClose(c, d) ==
  /\ SourceOpen(c, d)
  /\ ~srcEof[c][d]
  /\ MoreEvents
  /\ ncloses' = ncloses + 1
  /\ srcEof' = [srcEof EXCEPT ![c][d] = TRUE]
  /\ UNCHANGED <<inq, buf, readDone, dstate, amt, out, outEof, sent,
                 nreqs, nbytes, httpVars, taskVars>>
  /\ UNCHANGED <<listener, nclosed, logged, otherVars>>

----------------------------------------------------------------------------
Next ==
  \/ \E c \in Conns : Accept(c)
  \/ \E c \in Conns, r \in Requests : Dispatch(c, r)
  \/ \E c \in Conns : WriteResponse(c)
  \/ \E c \in Conns : ConnEnd(c)
  \/ \E c \in Conns : TunnelStart(c)
  \/ \E c \in Conns : UpgradeError(c)
  \/ \E c \in Conns : ConnectOk(c)
  \/ \E c \in Conns : ConnectFail(c)
  \/ \E c \in Conns, d \in Dirs, k \in 1..MaxEvents : RelayRead(c, d, k)
  \/ \E c \in Conns, d \in Dirs : RelayReadEof(c, d)
  \/ \E c \in Conns, d \in Dirs, k \in 1..MaxEvents : RelayWrite(c, d, k)
  \/ \E c \in Conns, d \in Dirs : RelayShutdown(c, d)
  \/ \E c \in Conns : TunnelOk(c)
  \/ \E c \in Conns : RelayIoError(c)
  \/ \E c \in Conns, d \in Dirs : PeerSend(c, d)
  \/ \E c \in Conns, d \in Dirs : PeerClose(c, d)

Spec == Init /\ [][Next]_vars

\* The runs in which at most NumTunnels connections are accepted, with the
\* scheduling of the tunnel tasks.
NumTunnels == 1    \* connections accepted in the runs checked for progress

LiveConns == 1..NumTunnels

NextLive ==
  \/ \E c \in LiveConns : Accept(c)
  \/ \E c \in LiveConns, r \in Requests : Dispatch(c, r)
  \/ \E c \in LiveConns : WriteResponse(c)
  \/ \E c \in LiveConns : ConnEnd(c)
  \/ \E c \in LiveConns : TunnelStart(c)
  \/ \E c \in LiveConns : UpgradeError(c)
  \/ \E c \in LiveConns : ConnectOk(c)
  \/ \E c \in LiveConns : ConnectFail(c)
  \/ \E c \in LiveConns, d \in Dirs, k \in 1..MaxEvents : RelayRead(c, d, k)
  \/ \E c \in LiveConns, d \in Dirs : RelayReadEof(c, d)
  \/ \E c \in LiveConns, d \in Dirs, k \in 1..MaxEvents : RelayWrite(c, d, k)
  \/ \E c \in LiveConns, d \in Dirs : RelayShutdown(c, d)
  \/ \E c \in LiveConns : TunnelOk(c)
  \/ \E c \in LiveConns : RelayIoError(c)
  \/ \E c \in LiveConns, d \in Dirs : PeerSend(c, d)
  \/ \E c \in LiveConns, d \in Dirs : PeerClose(c, d)

\* The tunnel task is polled whenever one of its sockets is ready, and each
\* poll of copy_bidirectional polls both directions: a relay step that stays
\* possible is taken.
RelayFairness ==
  \A c \in LiveConns :
    /\ WF_vars(TunnelOk(c))
    /\ \A d \in Dirs :
         /\ WF_vars(\E k \in 1..MaxEvents : RelayRead(c, d, k))
         /\ WF_vars(RelayReadEof(c, d))
         /\ WF_vars(\E k \in 1..MaxEvents : RelayWrite(c, d, k))
         /\ WF_vars(RelayShutdown(c, d))

SpecLive == Init /\ [][NextLive]_vars /\ RelayFairness

\* The runs in which accept() may return an error.
NextAccept == Next \/ AcceptFail

SpecAccept == Init /\ [][NextAccept]_vars

----------------------------------------------------------------------------
\* The chat server: one websocket task per client.

Names == {"", "a", "b"}    \* names a client submits
Texts == {"hi"}            \* chat messages a client sends

\* The text messages of the chat: format!("{username} joined."),
\* format!("{name}: {text}"), format!("{username} left.") and the rejection.
JoinedMsg(u)  == [kind |-> "joined", user |-> u, text |-> ""]
ChatMsg(u, x) == [kind |-> "chat", user |-> u, text |-> x]
LeftMsg(u)    == [kind |-> "left", user |-> u, text |-> ""]
TakenMsg      == [kind |-> "taken", user |-> "", text |-> "Username already taken."]

\* Mutant of CheckUsername: the name is inserted without looking it up.
CheckUsernameNoLookup(us, name) == [set |-> us \cup {name}, username |-> name]

\* check_username under the lock of user_set: a name that is not in the set is
\* inserted and appended to the (empty) username; otherwise username stays
\* empty.
CheckUsername(us, name) ==
  IF name \notin us
    THEN [set |-> us \cup {name}, username |-> name]
    ELSE [set |-> us, username |-> ""]

\* Another event of a chat client fits the bound.
MoreChat == nchat < MaxChat

\* The receiver `rx` of session t is alive: it lives in the running send_task.
Subscribed(t) == ctask[t].send = "running"

\* state.tx.send(m): every live receiver gets the message.
Broadcast(q, m) ==
  [t \in Sessions |-> IF Subscribed(t) THEN Append(q[t], m) ELSE q[t]]

\* ws.on_upgrade: the websocket task of session s starts.
ChatConnect(s) ==
  /\ cpc[s] = "idle"
  /\ cpc' = [cpc EXCEPT ![s] = "naming"]
  /\ cstream' = [cstream EXCEPT ![s] = "open"]
  /\ UNCHANGED <<user_set, cname, csub, ctask, cout, rxq, bcast, nchat>>
  /\ UNCHANGED <<proxyVars, rpVars, restVars>>

\* The naming loop receives a text message: check_username, then either
\* subscribe, broadcast "joined" and spawn the two tasks, or send
\* "Username already taken." and return.
ChatName(s, name) ==
  /\ cpc[s] = "naming"
  /\ cstream[s] = "open"
  /\ MoreChat
  /\ nchat' = nchat + 1
  /\ csub' = [csub EXCEPT ![s] = name]
  /\ LET r == CheckUsername(user_set, name) IN
       /\ user_set' = r.set
       /\ cname' = [cname EXCEPT ![s] = r.username]
       /\ IF r.username # ""
            THEN /\ cpc' = [cpc EXCEPT ![s] = "joined"]
                 /\ ctask' = [ctask EXCEPT ![s] = [send |-> "running", recv |-> "running"]]
                 /\ rxq' = [Broadcast(rxq, JoinedMsg(r.username))
                              EXCEPT ![s] = <<JoinedMsg(r.username)>>]
                 /\ bcast' = Append(bcast, JoinedMsg(r.username))
                 /\ UNCHANGED cout
            ELSE /\ cpc' = [cpc EXCEPT ![s] = "ended"]
                 /\ cout' = [cout EXCEPT ![s] = Append(@, TakenMsg)]
                 /\ UNCHANGED <<ctask, rxq, bcast>>
  /\ UNCHANGED cstream
  /\ UNCHANGED <<proxyVars, rpVars, restVars>>

\* The naming loop receives a message that is not text and goes on waiting.
ChatNameSkip(s) ==
  /\ cpc[s] = "naming"
  /\ cstream[s] = "open"
  /\ MoreChat
  /\ nchat' = nchat + 1
  /\ UNCHANGED <<user_set, cstream, cpc, cname, csub, ctask, cout, rxq, bcast>>
  /\ UNCHANGED <<proxyVars, rpVars, restVars>>

\* The client closes its websocket, or the connection breaks.
ChatClientClose(s) ==
  /\ cstream[s] = "open"
  /\ cpc[s] \in {"naming", "joined"}
  /\ MoreChat
  /\ nchat' = nchat + 1
  /\ cstream' = [cstream EXCEPT ![s] = "ended"]
  /\ UNCHANGED <<user_set, cpc, cname, csub, ctask, cout, rxq, bcast>>
  /\ UNCHANGED <<proxyVars, rpVars, restVars>>

\* receiver.next() returns None or an error in the naming loop: the loop is
\* left with an empty username, and the task goes on to subscribe, broadcast
\* " joined." and spawn the two tasks.
ChatNameEof(s) ==
  /\ cpc[s] = "naming"
  /\ cstream[s] = "ended"
  /\ cpc' = [cpc EXCEPT ![s] = "joined"]
  /\ ctask' = [ctask EXCEPT ![s] = [send |-> "running", recv |-> "running"]]
  /\ rxq' = [Broadcast(rxq, JoinedMsg(cname[s])) EXCEPT ![s] = <<JoinedMsg(cname[s])>>]
  /\ bcast' = Append(bcast, JoinedMsg(cname[s]))
  /\ UNCHANGED <<user_set, cstream, cname, csub, cout, nchat>>
  /\ UNCHANGED <<proxyVars, rpVars, restVars>>

\* recv_task receives a text message and broadcasts it under the name.
ChatRecvText(s, x) ==
  /\ ctask[s].recv = "running"
  /\ cpc[s] = "joined"
  /\ cstream[s] = "open"
  /\ MoreChat
  /\ nchat' = nchat + 1
  /\ rxq' = Broadcast(rxq, ChatMsg(cname[s], x))
  /\ bcast' = Append(bcast, ChatMsg(cname[s], x))
  /\ UNCHANGED <<user_set, cstream, cpc, cname, csub, ctask, cout>>
  /\ UNCHANGED <<proxyVars, rpVars, restVars>>

\* recv_task receives a message that is not text: its loop ends.
ChatRecvOther(s) ==
  /\ ctask[s].recv = "running"
  /\ cpc[s] = "joined"
  /\ cstream[s] = "open"
  /\ MoreChat
  /\ nchat' = nchat + 1
  /\ ctask' = [ctask EXCEPT ![s].recv = "done"]
  /\ UNCHANGED <<user_set, cstream, cpc, cname, csub, cout, rxq, bcast>>
  /\ UNCHANGED <<proxyVars, rpVars, restVars>>

\* recv_task finds the stream ended: its loop ends.
ChatRecvEnd(s) ==
  /\ ctask[s].recv = "running"
  /\ cpc[s] = "joined"
  /\ cstream[s] = "ended"
  /\ ctask' = [ctask EXCEPT ![s].recv = "done"]
  /\ UNCHANGED <<user_set, cstream, cpc, cname, csub, cout, rxq, bcast, nchat>>
  /\ UNCHANGED <<proxyVars, rpVars, restVars>>

\* send_task takes the next broadcast message and sends it to its client; when
\* the websocket is gone the send fails and the loop ends.
ChatSend(s) ==
  /\ ctask[s].send = "running"
  /\ cpc[s] = "joined"
  /\ rxq[s] # <<>>
  /\ rxq' = [rxq EXCEPT ![s] = Tail(@)]
  /\ IF cstream[s] = "open"
       THEN /\ cout' = [cout EXCEPT ![s] = Append(@, Head(rxq[s]))]
            /\ UNCHANGED ctask
       ELSE /\ ctask' = [ctask EXCEPT ![s].send = "done"]
            /\ UNCHANGED cout
  /\ UNCHANGED <<user_set, cstream, cpc, cname, csub, bcast, nchat>>
  /\ UNCHANGED <<proxyVars, rpVars, restVars>>

\* Mutant of ChatLeave: the username is not removed from user_set.
ChatLeaveKeepsName(s) ==
  /\ cpc[s] = "joined"
  /\ ctask[s].send = "done" \/ ctask[s].recv = "done"
  /\ ctask' = [ctask EXCEPT ![s] =
       [send |-> IF @.send = "running" THEN "aborted" ELSE @.send,
        recv |-> IF @.recv = "running" THEN "aborted" ELSE @.recv]]
  /\ rxq' = [t \in Sessions |->
       IF t # s /\ Subscribed(t) THEN Append(rxq[t], LeftMsg(cname[s]))
       ELSE IF t = s THEN <<>> ELSE rxq[t]]
  /\ bcast' = Append(bcast, LeftMsg(cname[s]))
  /\ cpc' = [cpc EXCEPT ![s] = "ended"]
  /\ UNCHANGED <<user_set, cstream, cname, csub, cout, nchat>>
  /\ UNCHANGED <<proxyVars, rpVars, restVars>>

\* tokio::select!: one of the two tasks has run to completion, the other one is
\* aborted; then "{username} left." is broadcast and the username is removed
\* from user_set.
ChatLeave(s) ==
  /\ cpc[s] = "joined"
  /\ ctask[s].send = "done" \/ ctask[s].recv = "done"
  /\ ctask' = [ctask EXCEPT ![s] =
       [send |-> IF @.send = "running" THEN "aborted" ELSE @.send,
        recv |-> IF @.recv = "running" THEN "aborted" ELSE @.recv]]
  /\ rxq' = [t \in Sessions |->
       IF t # s /\ Subscribed(t) THEN Append(rxq[t], LeftMsg(cname[s]))
       ELSE IF t = s THEN <<>> ELSE rxq[t]]
  /\ bcast' = Append(bcast, LeftMsg(cname[s]))
  /\ user_set' = user_set \ {cname[s]}
  /\ cpc' = [cpc EXCEPT ![s] = "ended"]
  /\ UNCHANGED <<cstream, cname, csub, cout, nchat>>
  /\ UNCHANGED <<proxyVars, rpVars, restVars>>

ChatNext ==
  \/ \E s \in Sessions : ChatConnect(s)
  \/ \E s \in Sessions, name \in Names : ChatName(s, name)
  \/ \E s \in Sessions : ChatNameSkip(s)
  \/ \E s \in Sessions : ChatClientClose(s)
  \/ \E s \in Sessions : ChatNameEof(s)
  \/ \E s \in Sessions, x \in Texts : ChatRecvText(s, x)
  \/ \E s \in Sessions : ChatRecvOther(s)
  \/ \E s \in Sessions : ChatRecvEnd(s)
  \/ \E s \in Sessions : ChatSend(s)
  \/ \E s \in Sessions : ChatLeave(s)

SpecChat == Init /\ [][ChatNext]_vars

----------------------------------------------------------------------------
\* The reverse proxy on port 4000 and its backend on port 3000.

RpMethods == {"GET", "POST"}
RpPaths   == {"/", "/a"}
RpRequests == [method : RpMethods, path : RpPaths]

\* Router::new().route("/", get(...)), of the proxy and of the backend alike:
\* what the router answers by itself to a request it has no handler for.
RpRouted(req) == req.path = "/" /\ req.method = "GET"

RpRouterResponse(req, who) ==
  IF req.path = "/"
    THEN [status |-> 405, body |-> "", by |-> who]
    ELSE [status |-> 404, body |-> "", by |-> who]

\* The backend server(): GET / is answered with "Hello, world!".
BackendResponse(req) ==
  IF RpRouted(req)
    THEN [status |-> 200, body |-> "Hello, world!", by |-> "backend"]
    ELSE RpRouterResponse(req, "backend")

\* A request arrives on port 4000.
RpReceive(req) ==
  /\ rpStage = "idle"
  /\ Len(rpLog) < MaxRpReqs
  /\ rpReq' = req
  /\ rpStage' = "routed"
  /\ UNCHANGED rpLog
  /\ UNCHANGED <<proxyVars, chatVars, restVars>>

\* The router of the proxy: GET / goes to handler, which rewrites the URI to
\* http://127.0.0.1:3000{path_query} and sends the request to the backend;
\* every other request is answered by the router and never forwarded.
RpRoute ==
  /\ rpStage = "routed"
  /\ IF RpRouted(rpReq)
       THEN /\ rpStage' = "forwarded"
            /\ UNCHANGED <<rpReq, rpLog>>
       ELSE /\ rpStage' = "idle"
            /\ rpReq' = NoRpReq
            /\ rpLog' = Append(rpLog,
                 [req |-> rpReq, forwarded |-> FALSE,
                  resp |-> RpRouterResponse(rpReq, "proxy")])
  /\ UNCHANGED <<proxyVars, chatVars, restVars>>

\* client.request(req) succeeded: the backend's response is returned.
RpBackendAnswer ==
  /\ rpStage = "forwarded"
  /\ rpStage' = "idle"
  /\ rpReq' = NoRpReq
  /\ rpLog' = Append(rpLog,
       [req |-> rpReq, forwarded |-> TRUE, resp |-> BackendResponse(rpReq)])
  /\ UNCHANGED <<proxyVars, chatVars, restVars>>

\* client.request(req) failed: map_err turns the error into 400 Bad Request.
RpBackendError ==
  /\ rpStage = "forwarded"
  /\ rpStage' = "idle"
  /\ rpReq' = NoRpReq
  /\ rpLog' = Append(rpLog,
       [req |-> rpReq, forwarded |-> TRUE,
        resp |-> [status |-> 400, body |-> "", by |-> "proxy"]])
  /\ UNCHANGED <<proxyVars, chatVars, restVars>>

RpNext ==
  \/ \E req \in RpRequests : RpReceive(req)
  \/ RpRoute
  \/ RpBackendAnswer
  \/ RpBackendError

SpecRp == Init /\ [][RpNext]_vars

----------------------------------------------------------------------------
\* The echoing websocket handler (integration_testable_handle_socket and
\* unit_testable_handle_socket run the same loop).

\* What the stream yields: Some(Ok(Message::Text)), Some(Ok(another message)),
\* Some(Err(_)).
EchoItems ==
  {[kind |-> "text", body |-> "foo"], [kind |-> "text", body |-> "bar"],
   [kind |-> "binary", body |-> "foo"], [kind |-> "error", body |-> ""]}

\* Mutant of EchoReply: the message is sent back as it came.
EchoReplyBare(msg) == msg

\* format!("You said: {msg}")
EchoReply(msg) == "You said: " \o msg

\* The client puts another item on the stream.
EchoClientSend(m) ==
  /\ ~eend
  /\ Len(ehist) + Len(ein) < MaxEcho
  /\ ein' = Append(ein, m)
  /\ UNCHANGED <<eend, ehist, eout, epc, estop>>
  /\ UNCHANGED <<proxyVars, chatVars, rpVars, todoVars>>

\* The client ends the stream.
EchoClientEnd ==
  /\ ~eend
  /\ eend' = TRUE
  /\ UNCHANGED <<ein, ehist, eout, epc, estop>>
  /\ UNCHANGED <<proxyVars, chatVars, rpVars, todoVars>>

\* `while let Some(Ok(msg)) = read.next().await`: the next item is taken; a
\* text message is to be answered, another message is passed over, an error
\* ends the loop.
EchoRecv ==
  /\ epc = "receiving"
  /\ ein # <<>>
  /\ ein' = Tail(ein)
  /\ ehist' = Append(ehist, Head(ein))
  /\ epc' = CASE Head(ein).kind = "text" -> "sending"
             [] Head(ein).kind = "error" -> "stopped"
             [] OTHER -> "receiving"
  /\ estop' = IF Head(ein).kind = "error" THEN "recv error" ELSE estop
  /\ UNCHANGED <<eend, eout>>
  /\ UNCHANGED <<proxyVars, chatVars, rpVars, todoVars>>

\* read.next() returns None: the loop ends.
EchoRecvEnd ==
  /\ epc = "receiving"
  /\ ein = <<>>
  /\ eend
  /\ epc' = "stopped"
  /\ estop' = "end"
  /\ UNCHANGED <<ein, eend, ehist, eout>>
  /\ UNCHANGED <<proxyVars, chatVars, rpVars, todoVars>>

\* write.send(Message::Text(format!("You said: {msg}"))) succeeded.
EchoSendOk ==
  /\ epc = "sending"
  /\ eout' = Append(eout,
       [kind |-> "text", body |-> EchoReply(ehist[Len(ehist)].body)])
  /\ epc' = "receiving"
  /\ UNCHANGED <<ein, eend, ehist, estop>>
  /\ UNCHANGED <<proxyVars, chatVars, rpVars, todoVars>>

\* write.send(...).await.is_err(): break.
EchoSendFail ==
  /\ epc = "sending"
  /\ epc' = "stopped"
  /\ estop' = "send error"
  /\ UNCHANGED <<ein, eend, ehist, eout>>
  /\ UNCHANGED <<proxyVars, chatVars, rpVars, todoVars>>

EchoNext ==
  \/ \E m \in EchoItems : EchoClientSend(m)
  \/ EchoClientEnd
  \/ EchoRecv
  \/ EchoRecvEnd
  \/ EchoSendOk
  \/ EchoSendFail

SpecEcho == Init /\ [][EchoNext]_vars

----------------------------------------------------------------------------
\* The todos service: handlers run concurrently on the runtime's threads and
\* share Db = Arc<RwLock<HashMap<Uuid, Todo>>>.

\* UpdateTodo { text: Option<String>, completed: Option<bool> }: the model's
\* PATCH bodies set text to "new", or completed to true; and DELETE.
TodoOps ==
  {[kind |-> "patch", setText |-> TRUE, setCompleted |-> FALSE],
   [kind |-> "patch", setText |-> FALSE, setCompleted |-> TRUE],
   [kind |-> "delete", setText |-> FALSE, setCompleted |-> FALSE]}

\* todos_update: the fields of the input that are Some overwrite the clone.
ApplyUpdate(todo, op) ==
  [present |-> TRUE,
   text |-> IF op.setText THEN "new" ELSE todo.text,
   completed |-> IF op.setCompleted THEN TRUE ELSE todo.completed]

\* todos_create: POST /todos inserts the todo under a fresh id.
TodoCreate ==
  /\ ~tmade
  /\ tmade' = TRUE
  /\ tdb' = [present |-> TRUE, text |-> "old", completed |-> FALSE]
  /\ UNCHANGED <<tpc, top, tlocal, tresp>>
  /\ UNCHANGED <<proxyVars, chatVars, rpVars, echoVars>>

\* todos_update, first half: db.read().get(&id).cloned().ok_or(NOT_FOUND)?;
\* the read lock is released at the end of the statement.
TodoPatchRead(r, op) ==
  /\ tmade
  /\ tpc[r] = "idle"
  /\ op.kind = "patch"
  /\ top' = [top EXCEPT ![r] = op]
  /\ IF tdb.present
       THEN /\ tlocal' = [tlocal EXCEPT ![r] = tdb]
            /\ tpc' = [tpc EXCEPT ![r] = "read"]
            /\ UNCHANGED tresp
       ELSE /\ tresp' = [tresp EXCEPT ![r] = 404]
            /\ tpc' = [tpc EXCEPT ![r] = "done"]
            /\ UNCHANGED tlocal
  /\ UNCHANGED <<tdb, tmade>>
  /\ UNCHANGED <<proxyVars, chatVars, rpVars, echoVars>>

\* todos_update, second half: the clone is modified and
\* db.write().insert(todo.id, todo.clone()) stores it; 200 with the todo.
TodoPatchWrite(r) ==
  /\ tpc[r] = "read"
  /\ tlocal' = [tlocal EXCEPT ![r] = ApplyUpdate(@, top[r])]
  /\ tdb' = ApplyUpdate(tlocal[r], top[r])
  /\ tresp' = [tresp EXCEPT ![r] = 200]
  /\ tpc' = [tpc EXCEPT ![r] = "done"]
  /\ UNCHANGED <<tmade, top>>
  /\ UNCHANGED <<proxyVars, chatVars, rpVars, echoVars>>

\* todos_delete: db.write().remove(&id): 204 when there was an entry, else 404.
TodoDelete(r, op) ==
  /\ tmade
  /\ tpc[r] = "idle"
  /\ op.kind = "delete"
  /\ top' = [top EXCEPT ![r] = op]
  /\ tdb' = NoTodo
  /\ tresp' = [tresp EXCEPT ![r] = IF tdb.present THEN 204 ELSE 404]
  /\ tpc' = [tpc EXCEPT ![r] = "done"]
  /\ UNCHANGED <<tmade, tlocal>>
  /\ UNCHANGED <<proxyVars, chatVars, rpVars, echoVars>>

TodoNext ==
  \/ TodoCreate
  \/ \E r \in TodoReqs, op \in TodoOps : TodoPatchRead(r, op)
  \/ \E r \in TodoReqs : TodoPatchWrite(r)
  \/ \E r \in TodoReqs, op \in TodoOps : TodoDelete(r, op)

SpecTodo == Init /\ [][TodoNext]_vars

----------------------------------------------------------------------------
\* Properties.

IsPrefix(s, t) == Len(s) <= Len(t) /\ SubSeq(t, 1, Len(s)) = s

\* The client of c has received the proxy's 200 answer to its CONNECT.
Got200(c) ==
  \E i \in 1..Len(clientRecv[c]) :
    clientRecv[c][i].status = 200 /\ clientRecv[c][i].by = "proxy"

\* The relay of c has taken a byte in hand in direction d.
Relayed(c, d) == buf[c][d] # <<>> \/ out[c][d] # <<>> \/ amt[c][d] > 0

\* A step the tunnel task of c can take without any further event of a peer.
ProxyStep(c) ==
  \/ \E d \in Dirs, k \in 1..MaxEvents : RelayRead(c, d, k)
  \/ \E d \in Dirs : RelayReadEof(c, d)
  \/ \E d \in Dirs, k \in 1..MaxEvents : RelayWrite(c, d, k)
  \/ \E d \in Dirs : RelayShutdown(c, d)
  \/ TunnelOk(c)

\* C1: no byte is relayed in either direction before the upstream connection
\* is established and the 200 response has been written to the client.
UpgradeBeforeRelay ==
  \A c \in Conns, d \in Dirs :
    Relayed(c, d) => upstream[c] # "none" /\ Got200(c) /\ conn[c] = "upgraded"

\* Witness of C1: a byte has been written to its destination.
UpgradeBeforeRelayWitness ==
  \E c \in Conns, d \in Dirs : out[c][d] # <<>>

\* C2 (as claimed): the client has the 200 answer to a CONNECT only if the
\* upstream connection has been established.
SuccessOnlyAfterConnect ==
  \A c \in Conns : Got200(c) => upstream[c] # "none"

\* C3 (as claimed): after a failed upstream connect the last response the
\* client received is a 502 or 500 with a reason, and the connection is closed.
ConnectFailureAnswered ==
  \A c \in Conns :
    exit[c] = "connect error" =>
      /\ inbound[c] = "closed"
      /\ clientRecv[c] # <<>>
      /\ clientRecv[c][Len(clientRecv[c])].status \in {500, 502}
      /\ clientRecv[c][Len(clientRecv[c])].body # ""

\* C4: after a failed upstream connect there is no upstream connection, no
\* byte has been copied in either direction, the task has ended and the
\* inbound connection is closed.
NoRelayAfterConnectFail ==
  \A c \in Conns :
    exit[c] = "connect error" =>
      /\ task[c] = "exited"
      /\ upstream[c] = "none"
      /\ inbound[c] = "closed"
      /\ \A d \in Dirs :
           /\ ~Relayed(c, d)
           /\ ~readDone[c][d] /\ dstate[c][d] = "running" /\ ~outEof[c][d]

\* Witness of C4: the connect failed while bytes of the client were waiting.
NoRelayAfterConnectFailWitness ==
  \E c \in Conns : exit[c] = "connect error" /\ inq[c]["c2s"] # <<>>

\* C5: a CONNECT request with a host:port target is handled by proxy; a request
\* with another method is handled by the router, whose response is what the
\* client receives, and it never starts a tunnel.
RoutingCorrect ==
  \A c \in Conns :
    /\ \A i \in 1..Len(calls[c]) :
         LET k == calls[c][i] IN
           /\ (k.req.method = "CONNECT" /\ k.req.target = "host:port")
                => k.handler = "proxy"
           /\ k.req.method # "CONNECT" =>
                /\ k.handler = "router"
                /\ k.resp.by = "router"
                /\ ~k.spawned
                /\ i <= Len(clientRecv[c]) => clientRecv[c][i].by = "router"
    /\ (\A i \in 1..Len(calls[c]) : calls[c][i].req.method # "CONNECT")
         => task[c] = "none" /\ conn[c] # "upgraded" /\ connects[c] = 0

\* Witness of C5: one connection served a POST and then a CONNECT.
RoutingCorrectWitness ==
  \E c \in Conns :
    /\ Len(calls[c]) = 2
    /\ calls[c][1].req.method = "POST"
    /\ calls[c][2].req.method = "CONNECT"
    /\ Len(clientRecv[c]) = 2

\* C6 (as claimed): a CONNECT whose target is not host:port is answered with
\* 400 and starts no task, so that no upstream connect is attempted.
InvalidTargetRejected ==
  \A c \in Conns :
    \A i \in 1..Len(calls[c]) :
      LET k == calls[c][i] IN
        (k.req.method = "CONNECT" /\ k.req.target # "host:port")
          => k.resp.status = 400 /\ ~k.spawned

\* C7: a CONNECT whose target has no authority component is answered with 400;
\* it spawns no task, and a connection that saw only such CONNECT requests is
\* never upgraded and makes no upstream connect.
NoAuthorityRejected ==
  \A c \in Conns :
    /\ \A i \in 1..Len(calls[c]) :
         LET k == calls[c][i] IN
           (k.req.method = "CONNECT" /\ k.req.target = "/") =>
             /\ k.handler = "proxy"
             /\ k.resp.status = 400
             /\ ~k.spawned
             /\ i <= Len(clientRecv[c]) => clientRecv[c][i].status = 400
    /\ (\A i \in 1..Len(calls[c]) :
          calls[c][i].req.method = "CONNECT" => calls[c][i].req.target = "/")
         => /\ task[c] = "none"
            /\ conn[c] # "upgraded"
            /\ connects[c] = 0
            /\ upstream[c] = "none"

\* Witness of C7: the client has received the 400 for such a CONNECT.
NoAuthorityRejectedWitness ==
  \E c \in Conns :
    /\ calls[c] # <<>>
    /\ calls[c][1].req = [method |-> "CONNECT", target |-> "/"]
    /\ clientRecv[c] # <<>>

\* C8: in each direction of each tunnel the bytes written to the destination
\* are a prefix of the bytes the source sent, and the count of written bytes
\* is their number.
RelayFifo ==
  \A c \in Conns, d \in Dirs :
    /\ IsPrefix(out[c][d], sent[c][d])
    /\ IsPrefix(out[c][d] \o buf[c][d], sent[c][d])
    /\ amt[c][d] = Len(out[c][d])

\* Witness of C8: two bytes went client->upstream while a byte of the other
\* direction was under way.
RelayFifoWitness ==
  \E c \in Conns :
    /\ Len(out[c]["c2s"]) = 2
    /\ sent[c]["s2c"] # <<>>
    /\ out[c]["s2c"] = <<>>

IoErrorEndsSession ==
  [][\A c \in Conns :
       exit'[c] = "relay error" =>
         /\ task'[c] = "exited"
         /\ inbound'[c] = "closed"
         /\ upstream'[c] = "closed"
         /\ clientRecv'[c] = clientRecv[c]
         /\ out'[c] = out[c] /\ buf'[c] = buf[c] /\ amt'[c] = amt[c]
         /\ dstate'[c] = dstate[c] /\ outEof'[c] = outEof[c]
         /\ exit[c] # "relay error" => Relaying(c)]_vars

\* Witness of C10: a session that had relayed a byte ended with an I/O error.
IoErrorEndsSessionWitness ==
  \E c \in Conns : exit[c] = "relay error" /\ \E d \in Dirs : out[c][d] # <<>>

\* The connection c has reached the end of an exit path: its connection task
\* is over without an upgrade, or its tunnel task has ended.
Finished(c) == conn[c] = "closed" \/ task[c] = "exited"

\* C11: each socket is closed at most once, it is closed exactly when it was
\* closed once, a connection at the end of an exit path has its inbound socket
\* closed once and its upstream socket, if it was opened, closed once; and
\* nothing is written to or read from a socket that is closed.
ClosedExactlyOnce ==
  [][\A c \in Conns :
       /\ nclosed'[c].inb <= 1 /\ nclosed'[c].ups <= 1
       /\ (inbound'[c] = "closed") = (nclosed'[c].inb = 1)
       /\ (upstream'[c] = "closed") = (nclosed'[c].ups = 1)
       /\ Finished(c)' => inbound'[c] = "closed" /\ upstream'[c] # "open"
       /\ inbound[c] = "closed" =>
            /\ inbound'[c] = "closed"
            /\ clientRecv'[c] = clientRecv[c]
            /\ out'[c]["s2c"] = out[c]["s2c"] /\ outEof'[c]["s2c"] = outEof[c]["s2c"]
            /\ inq'[c]["c2s"] = inq[c]["c2s"] /\ buf'[c]["c2s"] = buf[c]["c2s"]
       /\ upstream[c] = "closed" =>
            /\ upstream'[c] = "closed"
            /\ out'[c]["c2s"] = out[c]["c2s"] /\ outEof'[c]["c2s"] = outEof[c]["c2s"]
            /\ inq'[c]["s2c"] = inq[c]["s2c"] /\ buf'[c]["s2c"] = buf[c]["s2c"]]_vars

\* Witness of C11: one connection ended with an upgrade failure and another
\* one ended mid-relay with its upstream socket opened.
ClosedExactlyOnceWitness ==
  \E b, c \in Conns :
    /\ exit[b] = "upgrade error" /\ nclosed[b] = [inb |-> 1, ups |-> 0]
    /\ exit[c] = "relay error" /\ nclosed[c] = [inb |-> 1, ups |-> 1]

\* Everything the model holds about connection b and its tunnel session.
ConnView(b) ==
  <<conn[b], inbound[b], upstream[b], pending[b], calls[b], clientRecv[b],
    task[b], exit[b], addr[b], connects[b], inq[b], srcEof[b], buf[b],
    readDone[b], dstate[b], amt[b], out[b], outEof[b], sent[b], nclosed[b],
    logged[b]>>

\* The connection task or the tunnel task of c ends with an error in this step.
Fails(c) ==
  \/ conn[c] # "closed" /\ conn'[c] = "closed"
  \/ exit'[c] # exit[c] /\ exit'[c] \in {"upgrade error", "connect error", "relay error"}

\* C12: a step in which a task of connection c ends with an error leaves
\* everything of every other connection and session as it was (a session that
\* relays keeps relaying), and leaves the acceptor as it was.
ErrorStaysLocal ==
  [][\A c \in Conns :
       Fails(c) =>
         /\ \A b \in Conns \ {c} : ConnView(b)' = ConnView(b)
         /\ listener' = listener]_vars

\* Witness of C12: a session relays with a byte in its buffer after the
\* connect of another session has failed.
ErrorStaysLocalWitness ==
  \E b, c \in Conns :
    /\ b # c
    /\ exit[c] = "connect error"
    /\ Relaying(b) /\ buf[b]["c2s"] # <<>>

\* C13 (as claimed): whatever accept() returned, the accept loop is still
\* running: the process has not terminated.
AcceptErrorSurvived == listener = "listening"

NeverBackToHttp ==
  [][\A c \in Conns :
       conn[c] = "upgraded" =>
         /\ conn'[c] = "upgraded"
         /\ calls'[c] = calls[c]
         /\ pending'[c] = pending[c]
         /\ clientRecv'[c] = clientRecv[c]
         /\ sent'[c]["c2s"] # sent[c]["c2s"] =>
              /\ nreqs' = nreqs
              /\ inq'[c]["c2s"] = Append(inq[c]["c2s"], nbytes')
              /\ sent'[c]["c2s"] = Append(sent[c]["c2s"], nbytes')]_vars

\* Witness of C15: the client of an upgraded connection has sent two bytes,
\* which the relay has written upstream, and one call was dispatched.
NeverBackToHttpWitness ==
  \E c \in Conns :
    /\ conn[c] = "upgraded"
    /\ Len(calls[c]) = 1
    /\ Len(sent[c]["c2s"]) = 2
    /\ out[c]["c2s"] = sent[c]["c2s"]

Range(s) == {s[i] : i \in 1..Len(s)}

\* The task of c ended because the upstream connect failed or the relay broke.
UpstreamLost(c) == exit[c] \in {"connect error", "relay error"}

\* C16: a connection makes at most one upstream connect, and none without an
\* accepted CONNECT; no byte is written twice; and once the connect has failed
\* or the relay has broken there is no further connect, the upstream socket is
\* not opened again and nothing more is written.
AtMostOneConnect ==
  [][\A c \in Conns :
       /\ connects'[c] <= 1
       /\ connects'[c] <= Cardinality({i \in 1..Len(calls'[c]) : calls'[c][i].spawned})
       /\ \A d \in Dirs : Cardinality(Range(out'[c][d])) = Len(out'[c][d])
       /\ UpstreamLost(c) =>
            /\ connects'[c] = connects[c]
            /\ upstream'[c] = upstream[c]
            /\ task'[c] = "exited"
            /\ out'[c] = out[c] /\ amt'[c] = amt[c]]_vars

\* Witness of C16: the connect of one session failed, and another session
\* broke after it had written a byte and while another byte was waiting.
AtMostOneConnectWitness ==
  \E b, c \in Conns :
    /\ exit[b] = "connect error" /\ connects[b] = 1
    /\ exit[c] = "relay error" /\ connects[c] = 1
    /\ out[c]["c2s"] # <<>>

\* The byte counts of the two directions of c, as written.
Written(c) == <<Len(out[c]["c2s"]), Len(out[c]["s2c"])>>

\* C17 (as claimed): when the session has ended, cleanly or by an I/O error,
\* the tunnel task has the two totals, and they are the bytes written.
TotalsOnEveryEnd ==
  \A c \in Conns : exit[c] \in {"ok", "relay error"} => logged[c] = Written(c)

\* C17 (amended): after a clean end the tunnel task has logged the two totals,
\* which are the bytes written client->upstream and upstream->client; after an
\* I/O error it has no totals.
TotalsOnCleanEnd ==
  \A c \in Conns :
    /\ exit[c] = "ok" => logged[c] = Written(c)
    /\ exit[c] # "ok" => logged[c] = <<>>

\* Witness of C17: a session ended cleanly after one byte client->upstream and
\* none back.
TotalsOnCleanEndWitness ==
  \E c \in Conns : exit[c] = "ok" /\ logged[c] = <<1, 0>>

\* The relay state of session c.
RelayView(c) ==
  <<inq[c], srcEof[c], buf[c], readDone[c], dstate[c], amt[c], out[c],
    outEof[c], sent[c]>>

\* The bytes the two sources of session c have sent.
SessionBytes(c) == Range(sent[c]["c2s"]) \cup Range(sent[c]["s2c"])

\* C18: in each direction of a session the bytes written, buffered and waiting
\* are, in this order, exactly the bytes the source of that direction of that
\* session has sent; no byte sent in one session is a byte of another session;
\* and no step touches the relay state of two sessions.
SessionIsolation ==
  [][\A c \in Conns :
       /\ \A d \in Dirs :
            out'[c][d] \o buf'[c][d] \o inq'[c][d] = sent'[c][d]
       /\ \A b \in Conns :
            b < c =>
              /\ SessionBytes(b)' \cap SessionBytes(c)' = {}
              /\ RelayView(b)' = RelayView(b) \/ RelayView(c)' = RelayView(c)]_vars

\* Witness of C18: two sessions have each written a byte of their own client.
SessionIsolationWitness ==
  \E b, c \in Conns :
    /\ b # c
    /\ out[b]["c2s"] # <<>>
    /\ out[c]["c2s"] # <<>>

\* Session s is active under the name it obtained.
Holds(s, n) == cpc[s] = "joined" /\ cname[s] = n

\* C19: no two active chat sessions hold the same non-empty username, and the
\* name an active session holds is in user_set; when a session submits a
\* non-empty name that an active session holds it is told "Username already
\* taken." and ends without a username, and otherwise it acquires the name.
UsernamesUnique ==
  [][\A s \in Sessions :
       /\ \A t \in Sessions \ {s} :
            (Holds(s, cname[s])' /\ cname'[s] # "") => ~Holds(t, cname[s])'
       /\ (cpc'[s] = "joined" /\ cname'[s] # "") =>
            cname'[s] \in user_set' /\ cname'[s] = csub'[s]
       /\ (cpc[s] = "naming" /\ csub'[s] # "") =>
            IF \E t \in Sessions : Holds(t, csub'[s])
              THEN /\ cpc'[s] = "ended"
                   /\ cname'[s] = ""
                   /\ cout'[s] = Append(cout[s], TakenMsg)
                   /\ bcast' = bcast /\ user_set' = user_set
              ELSE /\ cpc'[s] = "joined"
                   /\ cname'[s] = csub'[s]]_vars

\* Witness of C19: two sessions submitted the name "a"; one holds it, the
\* other one was told that the name is taken and has ended.
UsernamesUniqueWitness ==
  \E s, t \in Sessions :
    /\ Holds(s, "a")
    /\ csub[t] = "a" /\ cpc[t] = "ended" /\ cname[t] = ""
    /\ cout[t] = <<TakenMsg>>

\* C20 (as claimed): every request the reverse proxy has answered was
\* forwarded to the backend, and the answer is the backend's response.
EveryRequestForwarded ==
  \A i \in 1..Len(rpLog) :
    /\ rpLog[i].forwarded
    /\ rpLog[i].resp = BackendResponse(rpLog[i].req)

IsText(m) == m.kind = "text"

\* The answers due for the items h, in order.
Answers(h) ==
  LET t == SelectSeq(h, IsText) IN
    [i \in 1..Len(t) |-> [kind |-> "text", body |-> "You said: " \o t[i].body]]

EofAfterData ==
  \A c \in Conns, d \in Dirs :
    /\ outEof[c][d] =>
         /\ srcEof[c][d] /\ readDone[c][d]
         /\ inq[c][d] = <<>> /\ buf[c][d] = <<>>
         /\ out[c][d] = sent[c][d]
    /\ (Relaying(c) /\ srcEof[c][d] /\ ~outEof[c][d]) =>
         ENABLED (\/ \E k \in 1..MaxEvents : RelayRead(c, d, k)
                  \/ RelayReadEof(c, d)
                  \/ \E k \in 1..MaxEvents : RelayWrite(c, d, k)
                  \/ RelayShutdown(c, d))

\* Witness of C22: the upstream side was shown the client's end-of-stream after
\* the client's byte was written to it, while the session still relays.
EofAfterDataWitness ==
  \E c \in Conns :
    /\ Relaying(c)
    /\ outEof[c]["c2s"] /\ out[c]["c2s"] # <<>>
    /\ ~srcEof[c]["s2c"]

\* C25 (as claimed): once the client has received a 400 answer to a CONNECT,
\* the connection does not go back to reading requests and no further request
\* is dispatched on it.
ClosedAfter400 ==
  \A c \in Conns :
    \A i \in 1..Len(clientRecv[c]) :
      (clientRecv[c][i].status = 400 /\ clientRecv[c][i].by = "proxy") =>
        conn[c] # "reading" /\ Len(calls[c]) = i

\* C27: a connection that ended without an upgrade made no upstream connect
\* and relayed nothing, and its task, if one was spawned, is waiting for the
\* upgrade or has exited with the upgrade error logged; a task that exited
\* with an upgrade error belongs to such a connection, whose client never got
\* the 200.
UpgradeFailureNoConnect ==
  \A c \in Conns :
    /\ conn[c] = "closed" =>
         /\ task[c] \in {"none", "awaitUpgrade", "exited"}
         /\ exit[c] \in {"none", "upgrade error"}
         /\ connects[c] = 0 /\ upstream[c] = "none"
         /\ \A d \in Dirs : ~Relayed(c, d) /\ inq[c][d] = <<>>
         /\ task[c] = "awaitUpgrade" => ENABLED UpgradeError(c)
    /\ exit[c] = "upgrade error" =>
         conn[c] = "closed" /\ task[c] = "exited" /\ ~Got200(c)

\* Witness of C27: the client went away before the 200 to its CONNECT was
\* written, and the task has exited with the upgrade error.
UpgradeFailureNoConnectWitness ==
  \E c \in Conns :
    /\ exit[c] = "upgrade error"
    /\ Len(calls[c]) = 1 /\ calls[c][1].spawned
    /\ clientRecv[c] = <<>>

\* C23: a tunnel whose client and upstream have both closed goes on to the
\* exit of its task with both sockets dropped; and an exited task holds no
\* open socket.
NoRelayOutlivesSession ==
  /\ [](\A c \in Conns :
          task[c] = "exited" => inbound[c] = "closed" /\ upstream[c] # "open")
  /\ \A c \in Conns :
       (Relaying(c) /\ srcEof[c]["c2s"] /\ srcEof[c]["s2c"])
         ~> (task[c] = "exited" /\ inbound[c] = "closed" /\ upstream[c] = "closed")

\* Witness of C23: both sides of a session have closed while a byte is still
\* to be relayed.
NoRelayOutlivesSessionWitness ==
  \E c \in Conns :
    /\ Relaying(c)
    /\ srcEof[c]["c2s"] /\ srcEof[c]["s2c"]
    /\ inq[c]["c2s"] # <<>>

\* C24: while a session relays, a direction with bytes waiting can read them
\* and a direction with bytes buffered can write them, whatever the state of
\* the opposite direction; and the bytes a source has sent are all written to
\* their destination unless the session ends first.
NoStarvation ==
  /\ [](\A c \in Conns, d \in Dirs :
          (Relaying(c) /\ dstate[c][d] = "running") =>
            /\ (inq[c][d] # <<>> /\ ~readDone[c][d]) =>
                 ENABLED (\E k \in 1..MaxEvents : RelayRead(c, d, k))
            /\ buf[c][d] # <<>> =>
                 ENABLED (\E k \in 1..MaxEvents : RelayWrite(c, d, k)))
  /\ \A c \in Conns, d \in Dirs :
       (Relaying(c) /\ out[c][d] # sent[c][d])
         ~> (~Relaying(c) \/ out[c][d] = sent[c][d])

\* Witness of C24: upstream->client bytes were written while the client's
\* byte sits unwritten in the buffer of the opposite direction.
NoStarvationWitness ==
  \E c \in Conns :
    /\ Relaying(c)
    /\ buf[c]["c2s"] # <<>> /\ out[c]["c2s"] = <<>>
    /\ Len(out[c]["s2c"]) = 2

\* Session s has spawned its two tasks at some time.
Spawned(s) == ctask[s] # NoTasks

\* C26: a session whose send_task or recv_task has run to completion can
\* leave at once; the step in which it leaves follows such a completion,
\* leaves neither task running, broadcasts "<name> left." and takes the name
\* out of user_set, so that check_username grants it again; the tasks run only
\* while the session is joined; and the "<name> left." messages broadcast are
\* one for each session that has left under that name.
LeftOnceAndNameFreed ==
  [][\A s \in Sessions :
       /\ (cpc[s] = "joined" /\ "done" \in {ctask[s].send, ctask[s].recv}) =>
            ENABLED ChatLeave(s)
       /\ (cpc[s] = "joined" /\ cpc'[s] # "joined") =>
            /\ "done" \in {ctask[s].send, ctask[s].recv}
            /\ cpc'[s] = "ended"
            /\ bcast' = Append(bcast, LeftMsg(cname[s]))
            /\ cname[s] \notin user_set'
            /\ CheckUsername(user_set', cname[s]).username = cname[s]
       /\ cpc'[s] # "joined" => "running" \notin {ctask'[s].send, ctask'[s].recv}
       /\ Cardinality({i \in 1..Len(bcast') : bcast'[i] = LeftMsg(cname'[s])})
            = Cardinality({t \in Sessions :
                 cpc'[t] = "ended" /\ Spawned(t)' /\ cname'[t] = cname'[s]})]_vars

\* Witness of C26: a session has left under the name "a" with its send_task
\* aborted, and another session holds "a" now.
LeftOnceAndNameFreedWitness ==
  \E s, t \in Sessions :
    /\ cpc[s] = "ended" /\ cname[s] = "a" /\ ctask[s].send = "aborted"
    /\ Holds(t, "a")

\* C28 (as claimed): user_set is the set of the usernames of the sessions that
\* are joined.
UserSetExact ==
  user_set = {cname[s] : s \in {t \in Sessions : cpc[t] = "joined"}}

\* C29 (as claimed): a session that has subscribed and spawned its tasks has
\* a non-empty username, the name it submitted; and no message was broadcast
\* under an empty name.
JoinedOnlyWithName ==
  /\ \A s \in Sessions :
       (cpc[s] = "joined" \/ Spawned(s)) => cname[s] # "" /\ cname[s] = csub[s]
  /\ \A i \in 1..Len(bcast) : bcast[i].user # ""

\* C30 (as claimed): the store is what some sequential order of the requests
\* leaves: once a DELETE has answered 204 the todo is absent, and when a PATCH
\* of text and a PATCH of completed have both answered 200 the todo, if
\* present, has both changes.
PatchAtomic ==
  /\ (\E r \in TodoReqs : top[r].kind = "delete" /\ tresp[r] = 204) => ~tdb.present
  /\ \A r, q \in TodoReqs :
       (/\ tresp[r] = 200 /\ top[r].setText
        /\ tresp[q] = 200 /\ top[q].setCompleted
        /\ tdb.present)
         => tdb.text = "new" /\ tdb.completed

====
